---- MODULE Spec2Model ----
(***************************************************************************)
(* A model of three parts of neuroglancer:                                 *)
(*   - the skeleton chunk GPU lifecycle and SkeletonLayer.draw             *)
(*     (src/src/neuroglancer/skeleton/frontend.ts),                        *)
(*   - SegmentationUserLayer, its visible-segment set, its equivalences    *)
(*     and their worker-side counterparts                                  *)
(*     (src/src/neuroglancer/segmentation_user_layer.ts),                  *)
(*   - the sized GPU surfaces and FramebufferConfiguration                 *)
(*     (src/unnamed/part_000, the offscreen framebuffer module).           *)
(* Each part has its own specification over the shared variables; the      *)
(* variables of the other parts keep their initial values.                 *)
(***************************************************************************)
EXTENDS Integers, Sequences, FiniteSets

VARIABLES
    \* ---- skeleton chunks (skeleton/frontend.ts) ----
    state,            \* chunk -> ChunkState
    vertexBuffer,     \* chunk -> status of the Buffer the field refers to
    indexBuffer,      \* chunk -> status of the Buffer the field refers to
    liveBuffers,      \* GPU buffers created and not yet deleted
    drawOps,          \* the drawSkeleton calls of the draw pass that just ended
    objectAlpha,      \* displayState.objectAlpha.value (0 or 1)
    \* ---- segmentation layer (segmentation_user_layer.ts) ----
    phase,            \* "new" before the constructor body ran, then "ready"
    x,                \* the persisted object the layer is constructed from
    visibleSegments,  \* the control side's Uint64Set
    segmentEquivalences, \* the control side's disjoint sets: id -> representative
    channel,          \* operation messages in flight to the worker
    mirrorVisible,    \* the worker side's counterpart of visibleSegments
    mirrorEquivalences, \* the worker side's counterpart of segmentEquivalences
    mirrorExpected,   \* control-side snapshot attached to the last message applied
    insertIssued,     \* an INSERT_VISIBLE operation was issued
    unionAfterInsert, \* a UNION operation was issued after an INSERT_VISIBLE
    selectedSegment,  \* segmentSelectionState.selectedSegment
    hasSelectedSegment, \* segmentSelectionState.hasSelectedSegment
    selectTrail,      \* the state before the 'select' actions made in succession
    json,             \* the value returned by the last toJSON() call
    \* ---- the layer's sources (segmentation_user_layer.ts) ----
    paths,            \* volumePath, meshPath, skeletonsPath: given or undefined
    promise,          \* the state of each source's resolution
    renderLayers,     \* the render layers added, in order
    meshLayer,        \* the source of this.meshLayer, or "undefined"
    wasDisposed,      \* the layer was disposed
    statusMessages,   \* failure reports the status sink received, per source
    volumeMesh,       \* what the resolved volume has as its own mesh source
    \* ---- GPU surfaces and framebuffer configuration (part_000) ----
    width,            \* surface -> SizeManaged.width
    height,           \* surface -> SizeManaged.height
    storage,          \* surface -> the storage the GPU holds for it
    lastResize,       \* what the most recent resize call did, and on which surface
    fbWidth,          \* FramebufferConfiguration.width
    fbHeight,         \* FramebufferConfiguration.height
    attachmentVerified, \* FramebufferConfiguration.attachmentVerified
    checkCount,       \* number of checkFramebufferStatus calls so far
    everComplete,     \* some checkFramebufferStatus call found the framebuffer complete
    lateCheck,        \* checkFramebufferStatus was called again after that
    lastBind,         \* how the most recent bind call ended
    lastStatus,       \* what the most recent checkFramebufferStatus call found
    viewport,         \* the size given to the most recent gl.viewport call
    viewportSet,      \* the most recent bind call reached gl.viewport
    \* ---- pixel readback (part_000) ----
    tempPixel,        \* the shared 4-byte readback array
    pixelResult,      \* the number that call returned
    pixelRead         \* the last call was readPixelAsUint32, and it returned

chunkVars == <<state, vertexBuffer, indexBuffer, liveBuffers, drawOps, objectAlpha>>
layerVars == <<phase, x, visibleSegments, segmentEquivalences, channel, mirrorVisible,
               mirrorEquivalences, mirrorExpected, insertIssued, unionAfterInsert,
               selectedSegment, hasSelectedSegment, selectTrail, json>>
surfaceVars == <<width, height, storage, lastResize, fbWidth, fbHeight,
                 attachmentVerified, checkCount, everComplete, lateCheck, lastBind,
                 lastStatus, viewport, viewportSet>>
pixelVars == <<tempPixel, pixelResult, pixelRead>>
sourceVars == <<paths, promise, renderLayers, meshLayer, wasDisposed, statusMessages,
                volumeMesh>>
vars == <<chunkVars, layerVars, surfaceVars, pixelVars, sourceVars>>

\* ------------------------------------------------------------------ bounds
MaxId == 3
NumChunks == 1
MaxLive == 4
MaxSegments == 2
MaxGroups == 2
MaxInFlight == 2
MaxDim == 2
MaxChecks == 2

Ids == 1..MaxId
\* The chunks of the skeleton source are those of the largest ids, so that a
\* chunk's id can differ from the representative of its class.
ChunkKeys == {MaxId + 1 - c : c \in 1..NumChunks}

\* ------------------------------------------------- disjoint sets over ids
\* A relation is held as the function id -> representative of its class.
Min(S) == CHOOSE m \in S : \A n \in S : m <= n

NoEquivalences == [i \in Ids |-> i]

get(eq, id) == eq[id]

setElements(eq, root) == {i \in Ids : eq[i] = root}

link(eq, a, b) ==
    LET ra == eq[a]
        rb == eq[b]
        r == Min({ra, rb})
    IN [i \in Ids |-> IF eq[i] = ra \/ eq[i] = rb THEN r ELSE eq[i]]

equivalencesSize(eq) == Cardinality({i \in Ids : Cardinality(setElements(eq, eq[i])) > 1})

Partition(eq) == {setElements(eq, eq[i]) : i \in Ids}

\* --------------------------------------------------------- skeleton chunks
SYSTEM_MEMORY == "SYSTEM_MEMORY"
GPU_MEMORY == "GPU_MEMORY"
BufferStatus == {"undefined", "live", "disposed"}

\* Buffer.fromData: creates a GPU buffer, or throws and creates none.
fromDataOutcomes == {"created", "thrown"}

\* Buffer.dispose on the buffer a field refers to. An unset field is a
\* TypeError; a live buffer is deleted, or the call throws and it stays; an
\* already disposed buffer is not deleted again (the call may throw).
disposeOutcomes(b) ==
    CASE b = "undefined" -> {[buf |-> "undefined", thrown |-> TRUE, released |-> 0]}
      [] b = "live" -> {[buf |-> "disposed", thrown |-> FALSE, released |-> 1],
                        [buf |-> "live", thrown |-> TRUE, released |-> 0]}
      [] OTHER -> {[buf |-> "disposed", thrown |-> FALSE, released |-> 0],
                   [buf |-> "disposed", thrown |-> TRUE, released |-> 0]}

\* Chunk.copyToGPU and Chunk.freeGPUMemory of the base class.
ChunkCopyToGPU(c) == [state EXCEPT ![c] = GPU_MEMORY]
ChunkFreeGPUMemory(c) == [state EXCEPT ![c] = SYSTEM_MEMORY]

\* The chunk manager promotes a chunk only from system memory and evicts it
\* only from GPU memory.
CanPromote(c) == state[c] = SYSTEM_MEMORY
CanEvict(c) == state[c] = GPU_MEMORY

\* SkeletonChunk.copyToGPU: the state is set, then the vertex buffer and then
\* the index buffer are created; a throw ends the call where it happens.
copyToGPU(c) ==
    /\ UNCHANGED <<layerVars, surfaceVars, pixelVars, sourceVars>>
    /\ CanPromote(c)
    /\ liveBuffers + 2 <= MaxLive
    /\ state' = ChunkCopyToGPU(c)
    /\ \E ov \in fromDataOutcomes :
         IF ov = "thrown"
         THEN UNCHANGED <<vertexBuffer, indexBuffer, liveBuffers>>
         ELSE /\ vertexBuffer' = [vertexBuffer EXCEPT ![c] = "live"]
              /\ \E oi \in fromDataOutcomes :
                   IF oi = "thrown"
                   THEN /\ indexBuffer' = indexBuffer
                        /\ liveBuffers' = liveBuffers + 1
                   ELSE /\ indexBuffer' = [indexBuffer EXCEPT ![c] = "live"]
                        /\ liveBuffers' = liveBuffers + 2
    /\ drawOps' = {}
    /\ UNCHANGED objectAlpha

\* SkeletonChunk.freeGPUMemory: the state is set, then the vertex buffer and
\* then the index buffer are disposed; a throw ends the call where it happens.
freeGPUMemory(c) ==
    /\ UNCHANGED <<layerVars, surfaceVars, pixelVars, sourceVars>>
    /\ CanEvict(c)
    /\ state' = ChunkFreeGPUMemory(c)
    /\ \E dv \in disposeOutcomes(vertexBuffer[c]) :
         /\ vertexBuffer' = [vertexBuffer EXCEPT ![c] = dv.buf]
         /\ IF dv.thrown
            THEN /\ indexBuffer' = indexBuffer
                 /\ liveBuffers' = liveBuffers - dv.released
            ELSE \E di \in disposeOutcomes(indexBuffer[c]) :
                   /\ indexBuffer' = [indexBuffer EXCEPT ![c] = di.buf]
                   /\ liveBuffers' = liveBuffers - dv.released - di.released
    /\ drawOps' = {}
    /\ UNCHANGED objectAlpha

\* The expanded visible set: every id in the class of a visible id.
expandedVisible ==
    {i \in Ids : \E v \in visibleSegments :
                   get(segmentEquivalences, i) = get(segmentEquivalences, v)}

\* forEachSegmentToDraw: each chunk of the source is visited once; its id is
\* resolved to the representative of its class, and the chunk is passed to the
\* callback, with the representative, when that is in the expanded visible set.
forEachSegmentToDraw ==
    {[rootObjectId |-> get(segmentEquivalences, o), objectId |-> o] :
        o \in {c \in ChunkKeys : get(segmentEquivalences, c) \in expandedVisible}}

\* The render layers that draw through a SkeletonLayer.
DrawingLayers == {"PerspectiveViewSkeletonLayer", "SliceViewPanelSkeletonLayer"}

\* pickIDs.register(layer, objectId): the identifier stands for the pair.
register(layer, objectId) == <<layer, objectId>>

\* SkeletonShaderManager.drawSkeleton on a chunk: whether the call throws
\* before gl.drawElements. An unset buffer field is a TypeError; binding a
\* disposed buffer throws or not, as the Buffer class decides.
drawSkeletonThrows(c, disposedThrows) ==
    \/ vertexBuffer[c] = "undefined"
    \/ indexBuffer[c] = "undefined"
    \/ disposedThrows /\ (vertexBuffer[c] = "disposed" \/ indexBuffer[c] = "disposed")

\* The callback of SkeletonLayer.draw: does it call drawSkeleton for the chunk.
drawsChunk(c) == state[c] = GPU_MEMORY

\* The mutant registers the pick id for the representative.
DrawOpPickRoot(p, layer, pickingOnly, disposedThrows) ==
    [objectId |-> p.objectId,
     rootObjectId |-> p.rootObjectId,
     layer |-> layer,
     pickID |-> register(layer, p.rootObjectId),
     color |-> IF pickingOnly THEN 0 ELSE p.rootObjectId,
     chunkState |-> state[p.objectId],
     vertexBuffer |-> vertexBuffer[p.objectId],
     indexBuffer |-> indexBuffer[p.objectId],
     drawn |-> ~drawSkeletonThrows(p.objectId, disposedThrows)]

\* One drawSkeleton call: the chunk, the layer that draws, the pick id the call
\* is tagged with, the id whose color was set before it (0: none, in a
\* picking-only pass) and what the call found.
DrawOp(p, layer, pickingOnly, disposedThrows) ==
    [objectId |-> p.objectId,
     rootObjectId |-> p.rootObjectId,
     layer |-> layer,
     pickID |-> register(layer, p.objectId),
     color |-> IF pickingOnly THEN 0 ELSE p.rootObjectId,
     chunkState |-> state[p.objectId],
     vertexBuffer |-> vertexBuffer[p.objectId],
     indexBuffer |-> indexBuffer[p.objectId],
     drawn |-> ~drawSkeletonThrows(p.objectId, disposedThrows)]

\* SkeletonLayer.draw: nothing when alpha <= 0; otherwise the chunks are
\* visited in the iteration order of the maps, and a throwing drawSkeleton
\* ends the pass.
draw ==
    /\ UNCHANGED <<layerVars, surfaceVars, pixelVars, sourceVars>>
    /\ \E layer \in DrawingLayers, pickingOnly \in BOOLEAN, disposedThrows \in BOOLEAN :
         LET todo == {p \in forEachSegmentToDraw : drawsChunk(p.objectId)}
             bad == {p \in todo : drawSkeletonThrows(p.objectId, disposedThrows)}
             good == todo \ bad
         IN IF objectAlpha <= 0
            THEN drawOps' = {}
            ELSE IF bad = {}
            THEN drawOps' = {DrawOp(p, layer, pickingOnly, disposedThrows) : p \in todo}
            ELSE \E before \in SUBSET good, last \in bad :
                   drawOps' = {DrawOp(p, layer, pickingOnly, disposedThrows) :
                                  p \in before \cup {last}}
    /\ UNCHANGED <<state, vertexBuffer, indexBuffer, liveBuffers, objectAlpha>>

\* ------------------------------------------------------ segmentation layer
\* Decimal strings are sequences of digits.
RECURSIVE ToString(_)
ToString(n) == IF n < 10 THEN <<n>> ELSE Append(ToString(n \div 10), n % 10)

RECURSIVE ParseString(_)
ParseString(str) ==
    IF Len(str) = 1 THEN str[1]
    ELSE 10 * ParseString(SubSeq(str, 1, Len(str) - 1)) + str[Len(str)]

RECURSIVE SortedSeq(_)
SortedSeq(S) == IF S = {} THEN <<>> ELSE <<Min(S)>> \o SortedSeq(S \ {Min(S)})

\* The replicated identity state as one value: both sets of the control
\* side, the messages in flight and the two flags on the operation order.
Layer == [vis |-> visibleSegments, eq |-> segmentEquivalences, chan |-> channel,
          ins |-> insertIssued, uai |-> unionAfterInsert]

\* An operation message; visAfter and eqAfter record the control side's state
\* once the operation was made.
Message(kind, a, b, vis, eq) ==
    [kind |-> kind, a |-> a, b |-> b, visAfter |-> vis, eqAfter |-> eq]

\* Uint64Set.add / delete / clear with a counterpart: the local set changes
\* and, if it changed, the operation is sent.
addSegment(L, id) ==
    IF id \in L.vis THEN L
    ELSE [L EXCEPT !.vis = @ \cup {id},
                   !.chan = Append(@, Message("INSERT_VISIBLE", id, 0, L.vis \cup {id}, L.eq)),
                   !.ins = TRUE]

deleteSegment(L, id) ==
    IF id \notin L.vis THEN L
    ELSE [L EXCEPT !.vis = @ \ {id},
                   !.chan = Append(@, Message("REMOVE_VISIBLE", id, 0, L.vis \ {id}, L.eq))]

clearSegments(L) ==
    IF L.vis = {} THEN L
    ELSE [L EXCEPT !.vis = {},
                   !.chan = Append(@, Message("CLEAR_VISIBLE", 0, 0, {}, L.eq))]

\* SharedDisjointUint64Sets.link / clear with a counterpart.
linkSegments(L, a, b) ==
    IF get(L.eq, a) = get(L.eq, b) THEN L
    ELSE [L EXCEPT !.eq = link(@, a, b),
                   !.chan = Append(@, Message("UNION", a, b, L.vis, link(L.eq, a, b))),
                   !.uai = @ \/ L.ins]

clearEquivalences(L) ==
    IF equivalencesSize(L.eq) = 0 THEN L
    ELSE [L EXCEPT !.eq = NoEquivalences,
                   !.chan = Append(@, Message("SET_EQUIVALENCES", 0, 0, L.vis, NoEquivalences)),
                   !.uai = @ \/ L.ins]

\* One group of an 'equivalences' value: every member is linked to the first.
RECURSIVE linkGroup(_, _, _)
linkGroup(L, group, i) ==
    IF i > Len(group) THEN L
    ELSE linkGroup(linkSegments(L, ParseString(group[1]), ParseString(group[i])), group, i + 1)

RECURSIVE linkGroups(_, _)
linkGroups(L, groups) ==
    IF groups = <<>> THEN L
    ELSE linkGroups(linkGroup(L, Head(groups), 2), Tail(groups))

\* SharedDisjointUint64Sets.restoreState: clear, then link what the value names.
restoreState(L, present, groups) ==
    IF present THEN linkGroups(clearEquivalences(L), groups) ELSE clearEquivalences(L)

\* The 'equivalences' property of the constructor's argument.
restoreEquivalences(L, xx) == restoreState(L, xx.hasEquivalences, xx.equivalences)

\* The 'segments' property: each id is parsed and its representative added.
RECURSIVE restoreSegmentList(_, _)
restoreSegmentList(L, values) ==
    IF values = <<>> THEN L
    ELSE restoreSegmentList(addSegment(L, get(L.eq, ParseString(Head(values)))), Tail(values))

restoreSegments(L, xx) == IF xx.hasSegments THEN restoreSegmentList(L, xx.segments) ELSE L

\* The identity state of a layer just made: nothing visible, nothing linked.
LayerFresh == [vis |-> {}, eq |-> NoEquivalences, chan |-> <<>>, ins |-> FALSE,
               uai |-> FALSE]

\* The mutant: the two properties restored in the other order.
constructorBodySegmentsFirst(L, xx) == restoreEquivalences(restoreSegments(L, xx), xx)

\* The constructor's restore of the identity state: equivalences, then segments.
constructorBody(L, xx) == restoreSegments(restoreEquivalences(L, xx), xx)

\* The tests of toJSON() that guard the two keys. The mutant always sets
\* 'segments'.
hasSegmentsKeyAlways(vis) == TRUE

hasSegmentsKey(vis) == Cardinality(vis) > 0

hasEquivalencesKey(eq) == equivalencesSize(eq) > 0

\* toJSON(): 'segments' and 'equivalences' are set only when not empty.
\* Uint64Set.toJSON lists the ids as decimal strings; the disjoint sets list
\* every class of more than one id.
toJSONOf(vis, eq) ==
    [hasSegments |-> hasSegmentsKey(vis),
     segments |-> IF hasSegmentsKey(vis)
                  THEN [i \in 1..Cardinality(vis) |-> ToString(SortedSeq(vis)[i])]
                  ELSE <<>>,
     hasEquivalences |-> hasEquivalencesKey(eq),
     equivalences |-> IF hasEquivalencesKey(eq)
                      THEN LET roots == SortedSeq({eq[i] : i \in {j \in Ids :
                                            Cardinality(setElements(eq, eq[j])) > 1}})
                           IN [k \in 1..Len(roots) |->
                                 LET members == SortedSeq(setElements(eq, roots[k]))
                                 IN [m \in 1..Len(members) |-> ToString(members[m])]]
                      ELSE <<>>]

toJSON == toJSONOf(visibleSegments, segmentEquivalences)

\* What a JSON value says: the set of segment ids and the partition.
SegmentIdsOf(j) == IF j.hasSegments THEN {ParseString(j.segments[i]) : i \in DOMAIN j.segments}
                   ELSE {}

PartitionOf(j) ==
    Partition(restoreState([vis |-> {}, eq |-> NoEquivalences, chan |-> <<>>,
                            ins |-> FALSE, uai |-> FALSE],
                           j.hasEquivalences, j.equivalences).eq)

SetLayer(L) ==
    /\ visibleSegments' = L.vis
    /\ segmentEquivalences' = L.eq
    /\ channel' = L.chan
    /\ insertIssued' = L.ins
    /\ unionAfterInsert' = L.uai

NoJson == [present |-> FALSE, value |-> toJSONOf({}, NoEquivalences)]

\* ------------------------------------------------------ the layer's sources
\* The three optional locators of the persisted object, by the field that
\* keeps them.
Resources == {"volumePath", "meshPath", "skeletonsPath"}

\* The constructor starts one resolution for every locator that is given.
startResolutions == [r \in Resources |-> IF paths[r] THEN "pending" ELSE "none"]

\* Which resolution reports its failure to the status sink: the volume is
\* resolved with getVolumeWithStatusMessage, the mesh and skeleton sources
\* with getMeshSource / getSkeletonSource and a then() without a rejection
\* handler.
reportsFailure(r) == r = "volumePath"

\* UserLayer.addRenderLayer; the entry keeps whether the layer was disposed
\* when the render layer was added.
addRenderLayer(layers, kind) == Append(layers, [kind |-> kind, wasDisposed |-> wasDisposed])

\* The guard of every resolution callback. The mutant does not look.
notDisposedIgnored == TRUE

notDisposed == ~wasDisposed

\* The volume callback adds the volume's own mesh source when no 'mesh'
\* locator was given and the volume has one. The mutant forgets the locator.
usesVolumeMeshAlways(meshSourceNotNull) == meshSourceNotNull

usesVolumeMesh(meshSourceNotNull) == ~paths["meshPath"] /\ meshSourceNotNull

\* addMesh(meshSource): this.meshLayer is set and the mesh layer added.
addMesh(layers, from) ==
    [renderLayers |-> addRenderLayer(layers, "MeshLayer"), meshLayer |-> from]

\* A resolution settles: fulfilled or rejected.
settle(r, ok) ==
    /\ UNCHANGED <<chunkVars, layerVars, surfaceVars, pixelVars>>
    /\ promise[r] = "pending"
    /\ promise' = [promise EXCEPT ![r] = IF ok THEN "fulfilled" ELSE "rejected"]
    /\ statusMessages' = IF ~ok /\ reportsFailure(r)
                         THEN [statusMessages EXCEPT ![r] = @ + 1]
                         ELSE statusMessages
    /\ UNCHANGED <<paths, renderLayers, meshLayer, wasDisposed, volumeMesh>>

\* The callback of the volume resolution.
volumeResolved(meshSourceNotNull) ==
    /\ UNCHANGED <<chunkVars, layerVars, surfaceVars, pixelVars>>
    /\ promise["volumePath"] = "fulfilled"
    /\ promise' = [promise EXCEPT !["volumePath"] = "done"]
    /\ IF notDisposed
       THEN LET withVolume == addRenderLayer(renderLayers, "SegmentationRenderLayer")
            IN IF usesVolumeMesh(meshSourceNotNull)
               THEN /\ renderLayers' = addMesh(withVolume, "volume").renderLayers
                    /\ meshLayer' = addMesh(withVolume, "volume").meshLayer
               ELSE /\ renderLayers' = withVolume
                    /\ UNCHANGED meshLayer
       ELSE UNCHANGED <<renderLayers, meshLayer>>
    /\ volumeMesh' = IF meshSourceNotNull THEN "source" ELSE "null"
    /\ UNCHANGED <<paths, wasDisposed, statusMessages>>

\* The callback of the mesh source resolution.
meshResolved ==
    /\ UNCHANGED <<chunkVars, layerVars, surfaceVars, pixelVars>>
    /\ promise["meshPath"] = "fulfilled"
    /\ promise' = [promise EXCEPT !["meshPath"] = "done"]
    /\ IF notDisposed
       THEN /\ renderLayers' = addMesh(renderLayers, "mesh").renderLayers
            /\ meshLayer' = addMesh(renderLayers, "mesh").meshLayer
       ELSE UNCHANGED <<renderLayers, meshLayer>>
    /\ UNCHANGED <<paths, wasDisposed, statusMessages, volumeMesh>>

\* The callback of the skeleton source resolution.
skeletonResolved ==
    /\ UNCHANGED <<chunkVars, layerVars, surfaceVars, pixelVars>>
    /\ promise["skeletonsPath"] = "fulfilled"
    /\ promise' = [promise EXCEPT !["skeletonsPath"] = "done"]
    /\ IF notDisposed
       THEN renderLayers' =
              addRenderLayer(addRenderLayer(renderLayers, "PerspectiveViewSkeletonLayer"),
                             "SliceViewPanelSkeletonLayer")
       ELSE UNCHANGED renderLayers
    /\ UNCHANGED <<paths, meshLayer, wasDisposed, statusMessages, volumeMesh>>

\* The layer is disposed.
dispose ==
    /\ UNCHANGED <<chunkVars, layerVars, surfaceVars, pixelVars>>
    /\ phase = "ready"
    /\ ~wasDisposed
    /\ wasDisposed' = TRUE
    /\ UNCHANGED <<paths, promise, renderLayers, meshLayer, statusMessages, volumeMesh>>

\* The render layers each resolved source stands for.
layersOf(r) ==
    CASE r = "volumePath" -> {"SegmentationRenderLayer"}
      [] r = "meshPath" -> {"MeshLayer"}
      [] r = "skeletonsPath" -> {"PerspectiveViewSkeletonLayer", "SliceViewPanelSkeletonLayer"}

kindsAdded == {renderLayers[i].kind : i \in DOMAIN renderLayers}

\* The number of mesh layers among the render layers.
meshLayers == Cardinality({i \in DOMAIN renderLayers : renderLayers[i].kind = "MeshLayer"})

\* The constructor: it starts the resolutions of the sources that are given
\* and restores the identity state from its argument x.
constructor ==
    /\ UNCHANGED <<chunkVars, surfaceVars, pixelVars>>
    /\ phase = "new"
    /\ phase' = "ready"
    /\ promise' = startResolutions
    /\ UNCHANGED <<paths, renderLayers, meshLayer, wasDisposed, statusMessages,
                   volumeMesh>>
    /\ SetLayer(constructorBody(Layer, x))
    /\ UNCHANGED <<x, mirrorVisible, mirrorEquivalences, mirrorExpected, selectedSegment,
                   hasSelectedSegment, selectTrail, json>>

\* A toJSON() call; its value is kept.
serialize ==
    /\ UNCHANGED <<chunkVars, surfaceVars, pixelVars, sourceVars>>
    /\ phase = "ready"
    /\ json' = [present |-> TRUE, value |-> toJSON]
    /\ UNCHANGED <<phase, x, visibleSegments, segmentEquivalences, channel, mirrorVisible,
                   mirrorEquivalences, mirrorExpected, insertIssued, unionAfterInsert,
                   selectedSegment, hasSelectedSegment, selectTrail>>

\* handleAction('select') with a selected segment: toggle its visibility.
\* The mutant adds the segment's representative instead of the segment.
selectToggleRepresentative(L, segment) ==
    IF segment \in L.vis THEN deleteSegment(L, segment)
    ELSE addSegment(L, get(L.eq, segment))

selectToggle(L, segment) ==
    IF segment \in L.vis THEN deleteSegment(L, segment) ELSE addSegment(L, segment)

Actions == {"recolor", "clear-segments", "select"}

\* What 'select' found before it acted; count is the number of 'select'
\* actions made in succession since (1 or 2; a third starts again at 1).
Snapshot == [vis |-> visibleSegments, json |-> toJSON]
NoTrail == [count |-> 0, before |-> [vis |-> {}, json |-> toJSONOf({}, NoEquivalences)]]

\* handleAction(action).
handleAction(action) ==
    /\ UNCHANGED <<chunkVars, surfaceVars, pixelVars, sourceVars>>
    /\ phase = "ready"
    /\ Len(channel) < MaxInFlight
    /\ CASE action = "recolor" ->   \* segmentColorHash.randomize(): no state of the model
              /\ selectTrail' = NoTrail
              /\ UNCHANGED <<visibleSegments, segmentEquivalences, channel, insertIssued,
                             unionAfterInsert>>
         [] action = "clear-segments" ->
              /\ SetLayer(clearSegments(Layer))
              /\ selectTrail' = NoTrail
         [] action = "select" ->
              /\ IF hasSelectedSegment
                 THEN SetLayer(selectToggle(Layer, selectedSegment))
                 ELSE UNCHANGED <<visibleSegments, segmentEquivalences, channel, insertIssued,
                                  unionAfterInsert>>
              /\ selectTrail' = IF selectTrail.count = 1
                                THEN [selectTrail EXCEPT !.count = 2]
                                ELSE [count |-> 1, before |-> Snapshot]
    /\ UNCHANGED <<phase, x, mirrorVisible, mirrorEquivalences, mirrorExpected,
                   selectedSegment, hasSelectedSegment, json>>

\* The add-segment widget of the dropdown: the entered id is made visible.
valueEntered(value) ==
    /\ UNCHANGED <<chunkVars, surfaceVars, pixelVars, sourceVars>>
    /\ phase = "ready"
    /\ Len(channel) < MaxInFlight
    /\ SetLayer(addSegment(Layer, value))
    /\ selectTrail' = NoTrail
    /\ UNCHANGED <<phase, x, mirrorVisible, mirrorEquivalences, mirrorExpected,
                   selectedSegment, hasSelectedSegment, json>>

\* SegmentSelectionState.set: the segment under the mouse, or none.
setSelected(has, segment) ==
    /\ UNCHANGED <<chunkVars, surfaceVars, pixelVars, sourceVars>>
    /\ phase = "ready"
    /\ hasSelectedSegment' = has
    /\ selectedSegment' = IF has THEN segment ELSE selectedSegment
    /\ selectTrail' = NoTrail
    /\ UNCHANGED <<phase, x, visibleSegments, segmentEquivalences, channel, mirrorVisible,
                   mirrorEquivalences, mirrorExpected, insertIssued, unionAfterInsert,
                   json>>

\* Which message the worker takes from the channel: the oldest. The mutant
\* takes the newest.
nextMessageNewest == Len(channel)

nextMessage == 1

\* The worker applies one operation message to its counterparts.
mirrorApply ==
    /\ UNCHANGED <<chunkVars, surfaceVars, pixelVars, sourceVars>>
    /\ channel # <<>>
    /\ LET k == nextMessage
           msg == channel[k]
       IN /\ channel' = [i \in 1..(Len(channel) - 1) |->
                            IF i < k THEN channel[i] ELSE channel[i + 1]]
          /\ mirrorVisible' =
               CASE msg.kind = "INSERT_VISIBLE" -> mirrorVisible \cup {msg.a}
                 [] msg.kind = "REMOVE_VISIBLE" -> mirrorVisible \ {msg.a}
                 [] msg.kind = "CLEAR_VISIBLE" -> {}
                 [] OTHER -> mirrorVisible
          /\ mirrorEquivalences' =
               CASE msg.kind = "UNION" -> link(mirrorEquivalences, msg.a, msg.b)
                 [] msg.kind = "SET_EQUIVALENCES" -> NoEquivalences
                 [] OTHER -> mirrorEquivalences
          /\ mirrorExpected' = [vis |-> msg.visAfter, eq |-> msg.eqAfter]
    /\ UNCHANGED <<phase, x, visibleSegments, segmentEquivalences, insertIssued,
                   unionAfterInsert, selectedSegment, hasSelectedSegment, selectTrail,
                   json>>

\* ------------------------------------------------------------ input domains
SeqsUpTo(S, n) == UNION {[1..k -> S] : k \in 0..n}
IdStrings == {ToString(i) : i \in Ids}
\* A group of an 'equivalences' value: two different ids as decimal strings,
\* the smaller first (link is symmetric).
Groups == {g \in [1..2 -> IdStrings] : ParseString(g[1]) < ParseString(g[2])}

\* The persisted objects: a key may be absent only where its list is empty.
ObjectsOver(segmentLists, groupLists) ==
    {o \in [hasSegments : BOOLEAN, segments : segmentLists,
            hasEquivalences : BOOLEAN, equivalences : groupLists] :
        /\ o.segments # <<>> => o.hasSegments
        /\ o.equivalences # <<>> => o.hasEquivalences}

PersistedObjects == ObjectsOver(SeqsUpTo(IdStrings, MaxSegments), SeqsUpTo(Groups, MaxGroups))

LayerInputs == ObjectsOver(SeqsUpTo(IdStrings, 1), SeqsUpTo(Groups, 1))

\* ------------------------------------------------------------ GPU surfaces
\* Number.NaN, the width and height of a surface never resized.
NaN == -1
Sizes == 1..MaxDim
Surfaces == {"depthBuffer", "colorBuffer"}

\* The === of numbers: NaN equals nothing.
StrictEq(a, b) == a # NaN /\ b # NaN /\ a = b

NoStorage == [allocated |-> FALSE, w |-> 0, h |-> 0]
Storage(w, h) == [allocated |-> TRUE, w |-> w, h |-> h]

\* The surfaces as one value, so that bind can resize one after the other.
SurfaceState == [width |-> width, height |-> height, storage |-> storage,
                 lastResize |-> lastResize]

\* The mutant compares the recorded height with the width asked for.
hasSizeTypo(S, s, w, h) == StrictEq(S.width[s], w) /\ StrictEq(S.height[s], w)

\* SizeManaged.hasSize.
hasSize(S, s, w, h) == StrictEq(S.width[s], w) /\ StrictEq(S.height[s], h)

\* performResize (renderbufferStorage, resizeTexture): the storage is
\* reallocated at the recorded size, or the call throws and it is not.
performResizeOutcomes == {"allocated", "thrown"}

\* What a resize call did: had the surface the size asked for (by its recorded
\* width and height), was performResize invoked, did width, height or storage
\* change, did the call throw.
ResizeRecord(S, T, s, w, h, performed, thrown) ==
    [called |-> TRUE,
     surface |-> s,
     hadSize |-> StrictEq(S.width[s], w) /\ StrictEq(S.height[s], h),
     performed |-> performed,
     changed |-> \/ T.width[s] # S.width[s]
                 \/ T.height[s] # S.height[s]
                 \/ T.storage[s] # S.storage[s],
     thrown |-> thrown]

NoResize == [called |-> FALSE, surface |-> "none", hadSize |-> FALSE, performed |-> FALSE, changed |-> FALSE,
             thrown |-> FALSE]

\* SizeManaged.resize on surface s: every way the call can end, as the
\* surfaces after it and whether it threw.
resize(S, s, w, h) ==
    IF hasSize(S, s, w, h)
    THEN {[after |-> [S EXCEPT !.lastResize = ResizeRecord(S, S, s, w, h, FALSE, FALSE)],
           thrown |-> FALSE]}
    ELSE {LET sized == [S EXCEPT !.width[s] = w, !.height[s] = h]
              T == IF o = "allocated" THEN [sized EXCEPT !.storage[s] = Storage(w, h)]
                   ELSE sized
          IN [after |-> [T EXCEPT !.lastResize =
                                     ResizeRecord(S, T, s, w, h, TRUE, o = "thrown")],
              thrown |-> o = "thrown"] : o \in performResizeOutcomes}

SetSurfaces(T) ==
    /\ width' = T.width
    /\ height' = T.height
    /\ storage' = T.storage
    /\ lastResize' = T.lastResize

\* A resize call on one surface.
resizeSurface(s, w, h) ==
    /\ UNCHANGED <<chunkVars, layerVars, pixelVars, sourceVars>>
    /\ \E r \in resize(SurfaceState, s, w, h) : SetSurfaces(r.after)
    /\ UNCHANGED <<fbWidth, fbHeight, attachmentVerified, checkCount,
                   everComplete, lateCheck, lastBind, lastStatus, viewport, viewportSet>>

\* verifyAttachment after a check: the mutant does not record the result.
verifiedAfterCheckForgotten(complete) == attachmentVerified

\* The mutant sets the flag whatever the check found.
verifiedAfterCheckAlways(complete) == TRUE

\* attachmentVerified after checkFramebufferStatus returned: set when complete.
verifiedAfterCheck(complete) == IF complete THEN TRUE ELSE attachmentVerified

\* FramebufferConfiguration.verifyAttachment, as the last step of bind.
verifyAttachment ==
    IF attachmentVerified
    THEN /\ lastBind' = "skipped"
         /\ UNCHANGED <<attachmentVerified, checkCount, everComplete, lateCheck,
                        lastStatus>>
    ELSE \E complete \in BOOLEAN :
           /\ checkCount' = checkCount + 1
           /\ lateCheck' = (lateCheck \/ everComplete)
           /\ everComplete' = (everComplete \/ complete)
           /\ attachmentVerified' = verifiedAfterCheck(complete)
           /\ lastStatus' = IF complete THEN "complete" ELSE "incomplete"
           /\ lastBind' = IF complete THEN "checkedComplete" ELSE "checkedIncomplete"

\* The end of bind when a step before gl.viewport threw.
bindThrown ==
    /\ viewportSet' = FALSE
    /\ UNCHANGED viewport

\* FramebufferConfiguration.bind: the size is recorded, the depth buffer and
\* then the color buffer are resized and attached, the attachment is verified,
\* the viewport is set. A throw ends the call where it happens.
bind(w, h) ==
    /\ UNCHANGED <<chunkVars, layerVars, pixelVars, sourceVars>>
    /\ attachmentVerified \/ checkCount < MaxChecks
    /\ fbWidth' = w
    /\ fbHeight' = h
    /\ \E rd \in resize(SurfaceState, "depthBuffer", w, h) :
         IF rd.thrown
         THEN /\ SetSurfaces(rd.after)
              /\ lastBind' = "resizeThrown"
              /\ bindThrown
              /\ UNCHANGED <<attachmentVerified, checkCount, everComplete, lateCheck,
                             lastStatus>>
         ELSE \E rc \in resize(rd.after, "colorBuffer", w, h) :
                /\ SetSurfaces(rc.after)
                /\ IF rc.thrown
                   THEN /\ lastBind' = "resizeThrown"
                        /\ bindThrown
                        /\ UNCHANGED <<attachmentVerified, checkCount, everComplete,
                                       lateCheck, lastStatus>>
                   ELSE /\ verifyAttachment
                        /\ IF lastBind' = "checkedIncomplete"
                           THEN bindThrown
                           ELSE /\ viewport' = <<w, h>>
                                /\ viewportSet' = TRUE

\* ---------------------------------------------------------- pixel readback
\* A sample of the byte values 0..255 that holds both sides of the sign bit.
ByteSamples == {0, 1, 127, 128, 255}

\* a << k of JavaScript for 0 < k < 32: the low 32 - k bits of a move up and the
\* result is read as a 32-bit two's complement value (computed without leaving
\* the 32-bit range).
ShiftLeft(a, k) ==
    LET m == 2^(32 - k)
        r == a % m
    IN IF r >= m \div 2 THEN (r - m) * 2^k ELSE r * 2^k

\* readPixel: the pixel read lands in tempPixel.
readPixel ==
    /\ UNCHANGED <<chunkVars, layerVars, surfaceVars, sourceVars>>
    /\ tempPixel' \in [1..4 -> ByteSamples]
    /\ pixelResult' = 0
    /\ pixelRead' = FALSE

\* The value readPixelAsUint32 computes from the bytes.
packPixel(result) ==
    result[1] + ShiftLeft(result[2], 8) + ShiftLeft(result[3], 16) + ShiftLeft(result[4], 24)

\* readPixelAsUint32: readPixel, then the bytes are packed.
readPixelAsUint32 ==
    /\ UNCHANGED <<chunkVars, layerVars, surfaceVars, sourceVars>>
    /\ tempPixel' \in [1..4 -> ByteSamples]
    /\ pixelResult' = packPixel(tempPixel')
    /\ pixelRead' = TRUE

\* ------------------------------------------------------- initial conditions
EmptyObject == [hasSegments |-> FALSE, segments |-> <<>>,
                hasEquivalences |-> FALSE, equivalences |-> <<>>]

\* Chunks as the source's getChunk makes them: in system memory, no buffers.
ChunkInit ==
    /\ state = [c \in ChunkKeys |-> SYSTEM_MEMORY]
    /\ vertexBuffer = [c \in ChunkKeys |-> "undefined"]
    /\ indexBuffer = [c \in ChunkKeys |-> "undefined"]
    /\ liveBuffers = 0
    /\ drawOps = {}

\* The layer's fields before the constructor body runs, except x.
LayerFieldsInit ==
    /\ visibleSegments = {}
    /\ segmentEquivalences = NoEquivalences
    /\ channel = <<>>
    /\ mirrorVisible = {}
    /\ mirrorEquivalences = NoEquivalences
    /\ mirrorExpected = [vis |-> {}, eq |-> NoEquivalences]
    /\ insertIssued = FALSE
    /\ unionAfterInsert = FALSE
    /\ selectedSegment = 1
    /\ hasSelectedSegment = FALSE
    /\ selectTrail = NoTrail
    /\ json = NoJson

LayerInit(inputs) ==
    /\ phase = "new"
    /\ x \in inputs
    /\ LayerFieldsInit

\* Surfaces and a framebuffer configuration as constructed.
SurfaceInit ==
    /\ width = [s \in Surfaces |-> NaN]
    /\ height = [s \in Surfaces |-> NaN]
    /\ storage = [s \in Surfaces |-> NoStorage]
    /\ lastResize = NoResize
    /\ fbWidth = NaN
    /\ fbHeight = NaN
    /\ attachmentVerified = FALSE
    /\ checkCount = 0
    /\ everComplete = FALSE
    /\ lateCheck = FALSE
    /\ lastBind = "none"
    /\ lastStatus = "none"
    /\ viewport = <<NaN, NaN>>
    /\ viewportSet = FALSE

\* The layer's sources before the constructor body runs, except paths.
SourceFieldsInit ==
    /\ promise = [r \in Resources |-> "none"]
    /\ renderLayers = <<>>
    /\ meshLayer = "undefined"
    /\ wasDisposed = FALSE
    /\ statusMessages = [r \in Resources |-> 0]
    /\ volumeMesh = "unresolved"

NoPaths == [r \in Resources |-> FALSE]

SourceInit ==
    /\ paths = NoPaths
    /\ SourceFieldsInit

PixelInit ==
    /\ tempPixel = [i \in 1..4 |-> 0]
    /\ pixelResult = 0
    /\ pixelRead = FALSE

\* ------------------------------------------ specification: skeleton chunks
\* The display state a skeleton layer draws with: any visible set, and the
\* equivalences made by at most one link.
DisplayEquivalences ==
    {NoEquivalences} \cup {link(NoEquivalences, a, b) : a, b \in Ids}

InitChunk ==
    /\ ChunkInit
    /\ objectAlpha \in {0, 1}
    /\ phase = "ready"
    /\ x = EmptyObject
    /\ visibleSegments \in SUBSET Ids
    /\ segmentEquivalences \in DisplayEquivalences
    /\ channel = <<>>
    /\ mirrorVisible = visibleSegments
    /\ mirrorEquivalences = segmentEquivalences
    /\ mirrorExpected = [vis |-> visibleSegments, eq |-> segmentEquivalences]
    /\ insertIssued = FALSE
    /\ unionAfterInsert = FALSE
    /\ selectedSegment = 1
    /\ hasSelectedSegment = FALSE
    /\ selectTrail = NoTrail
    /\ json = NoJson
    /\ SurfaceInit
    /\ PixelInit
    /\ SourceInit

NextChunk ==
    \/ \E c \in ChunkKeys : copyToGPU(c)
    \/ \E c \in ChunkKeys : freeGPUMemory(c)
    \/ draw

SpecChunk == InitChunk /\ [][NextChunk]_vars

\* --------------------------------------- specification: segmentation layer
InitLayer ==
    /\ LayerInit(LayerInputs)
    /\ ChunkInit
    /\ objectAlpha = 1
    /\ SurfaceInit
    /\ PixelInit
    /\ SourceInit

NextLayer ==
    \/ constructor
    \/ \E action \in Actions : handleAction(action)
    \/ \E value \in Ids : valueEntered(value)
    \/ \E has \in BOOLEAN, segment \in Ids : setSelected(has, segment)
    \/ mirrorApply

SpecLayer == InitLayer /\ [][NextLayer]_vars

\* ------------------------- specification: restore and serialize round trip
InitRoundTrip ==
    /\ LayerInit(PersistedObjects)
    /\ ChunkInit
    /\ objectAlpha = 1
    /\ SurfaceInit
    /\ PixelInit
    /\ SourceInit

NextRoundTrip ==
    \/ constructor
    \/ serialize

SpecRoundTrip == InitRoundTrip /\ [][NextRoundTrip]_vars

\* ------- specifications: surfaces resized alone, and a framebuffer's binds
InitSurface ==
    /\ SurfaceInit
    /\ ChunkInit
    /\ objectAlpha = 1
    /\ LayerInit({EmptyObject})
    /\ PixelInit
    /\ SourceInit

NextSurface == \E s \in Surfaces, w, h \in Sizes : resizeSurface(s, w, h)

SpecSurface == InitSurface /\ [][NextSurface]_vars

NextBind == \E w, h \in Sizes : bind(w, h)

SpecBind == InitSurface /\ [][NextBind]_vars

\* ------------------------------------------- specification: pixel readback
InitPixel ==
    /\ PixelInit
    /\ ChunkInit
    /\ objectAlpha = 1
    /\ LayerInit({EmptyObject})
    /\ SurfaceInit
    /\ SourceInit

NextPixel ==
    \/ readPixel
    \/ readPixelAsUint32

SpecPixel == InitPixel /\ [][NextPixel]_vars

\* --------------------------------- specification: the layer and its sources
\* The persisted objects with no identity state, or one visible segment.
SourceInputs == ObjectsOver(SeqsUpTo({ToString(1)}, 1), {<<>>})

InitSources ==
    /\ LayerInit(SourceInputs)
    /\ paths \in [Resources -> BOOLEAN]
    /\ SourceFieldsInit
    /\ ChunkInit
    /\ objectAlpha = 1
    /\ SurfaceInit
    /\ PixelInit

NextSources ==
    \/ constructor
    \/ \E r \in Resources, ok \in BOOLEAN : settle(r, ok)
    \/ \E meshSourceNotNull \in BOOLEAN : volumeResolved(meshSourceNotNull)
    \/ meshResolved
    \/ skeletonResolved
    \/ dispose

SpecSources == InitSources /\ [][NextSources]_vars

\* ------------------------------------------------------------------ claims

\* C1: SkeletonLayer.draw issues a draw operation (a drawSkeleton call) only
\* for a chunk whose state is GPU_MEMORY and whose vertex buffer and index
\* buffer are both allocated and not disposed.
C1_DrawOnlyResident ==
    \A op \in drawOps :
        /\ op.chunkState = GPU_MEMORY
        /\ op.vertexBuffer = "live"
        /\ op.indexBuffer = "live"

\* C2: a chunk that is not in GPU memory holds no GPU buffer: freeGPUMemory has
\* released the vertex and the index buffer of a chunk by the time the chunk
\* can be seen in a non-resident state, also when a release step fails.
C2_ReleasedBeforeNonResident ==
    \A c \in ChunkKeys :
        state[c] # GPU_MEMORY => vertexBuffer[c] # "live" /\ indexBuffer[c] # "live"

C4_RoundTrip ==
    json.present =>
        /\ SegmentIdsOf(json.value) = SegmentIdsOf(x)
        /\ PartitionOf(json.value) = PartitionOf(x)

\* C5: a resize call for the size the surface already has does not invoke
\* performResize, does not throw, and leaves width, height and storage as
\* they were.
C5_SameSizeNoRealloc ==
    (lastResize.called /\ lastResize.hadSize) =>
        /\ ~lastResize.performed
        /\ ~lastResize.changed
        /\ ~lastResize.thrown

\* C5 witness: a resize call was made on a surface already of that size.
C5_ResizedToSameSize ==
    /\ lastResize.called
    /\ lastResize.hadSize
    /\ storage[lastResize.surface].allocated

\* C6 as claimed: once a bind has reached the verification step, the
\* completeness check has been performed exactly once.
C6_ExactlyOnce ==
    lastBind \in {"checkedComplete", "checkedIncomplete", "skipped"} => checkCount = 1

\* C6 as amended: the check is performed by every bind that reaches the
\* verification step until a check finds the framebuffer complete, and by no
\* bind after that: no check follows a complete one, a bind skips the check
\* only after a complete one, and the configuration is marked verified exactly
\* when a check found the framebuffer complete.
C6_CheckedUntilComplete ==
    /\ ~lateCheck
    /\ lastBind = "skipped" => everComplete
    /\ attachmentVerified <=> everComplete

\* C6 witness: a check found the framebuffer incomplete, the next bind checked
\* again and found it complete, and a later bind skipped the check.
C6_SkippedAfterSecondCheck ==
    /\ checkCount = 2
    /\ lastBind = "skipped"

\* C7: readPixelAsUint32 returns the unsigned little-endian value of the four
\* bytes, b0 + 2^8 b1 + 2^16 b2 + 2^24 b3: it is never negative, and what it
\* holds above the low three bytes is b3 * 2^24.
C7_Unsigned ==
    pixelRead =>
        LET low == tempPixel[1] + 256 * tempPixel[2] + 65536 * tempPixel[3]
        IN /\ pixelResult >= 0
           /\ (pixelResult - low) % 16777216 = 0
           /\ (pixelResult - low) \div 16777216 = tempPixel[4]

\* C8: after two 'select' actions in succession the visible-segment set and
\* the value of toJSON() are what they were before the first.
C8_SelectTwiceRestores ==
    selectTrail.count = 2 =>
        /\ visibleSegments = selectTrail.before.vis
        /\ toJSON = selectTrail.before.json

\* C8 witness: two 'select' actions in succession on a selected segment that
\* was visible before them, in a layer with equivalences.
C8_SelectedTwice ==
    /\ selectTrail.count = 2
    /\ hasSelectedSegment
    /\ selectedSegment \in selectTrail.before.vis
    /\ segmentEquivalences # NoEquivalences

\* C9: the number of live GPU buffers is twice the number of chunks in
\* GPU_MEMORY state.
C9_LiveBuffersMatchResidency ==
    liveBuffers = 2 * Cardinality({c \in ChunkKeys : state[c] = GPU_MEMORY})

\* C10: the recorded size of a surface is the size of its storage: hasSize(w,h)
\* holds only if storage of size (w,h) is allocated.
C10_NoPartialState ==
    \A s \in Surfaces, w \in Sizes, h \in Sizes :
        hasSize(SurfaceState, s, w, h) => storage[s] = Storage(w, h)

\* C11: when the completeness check made during bind finds the framebuffer
\* incomplete, that bind throws before it sets the viewport and the
\* configuration is not marked verified; and as long as the last check found
\* the framebuffer incomplete, no bind has completed since (every bind since
\* threw, in a resize or in its own check).
C11_IncompleteRaises ==
    /\ lastBind = "checkedIncomplete" => ~attachmentVerified /\ ~viewportSet
    /\ lastStatus = "incomplete" =>
          /\ ~attachmentVerified
          /\ lastBind \in {"checkedIncomplete", "resizeThrown"}
          /\ ~viewportSet

\* C11 witness: a bind found the framebuffer incomplete, and the bind after
\* it checked again and found it incomplete too.
C11_IncompleteTwice ==
    /\ lastBind = "checkedIncomplete"
    /\ checkCount = 2
    /\ ~everComplete

\* C12: when the resolution of the volume, mesh or skeleton source fails, the
\* failure is reported exactly once to the status sink, and the layer goes on
\* without that source: the render layers of every source whose callback ran
\* on the live layer are there, and the visible segments and the equivalences
\* are as the constructor restored them.
C12_FailureReportedOnce ==
    /\ \A r \in Resources :
         statusMessages[r] = IF promise[r] = "rejected" THEN 1 ELSE 0
    /\ \A r \in Resources :
         promise[r] = "done" /\ ~wasDisposed => layersOf(r) \subseteq kindsAdded
    /\ phase = "ready" =>
         /\ visibleSegments = constructorBody(LayerFresh, x).vis
         /\ segmentEquivalences = constructorBody(LayerFresh, x).eq

C14_KeysIffNonEmpty ==
    /\ toJSON.hasSegments <=> visibleSegments # {}
    /\ toJSON.hasEquivalences <=>
         \E a \in Ids, b \in Ids :
           a # b /\ get(segmentEquivalences, a) = get(segmentEquivalences, b)
    /\ toJSON.hasSegments => Len(toJSON.segments) = Cardinality(visibleSegments)
    /\ ~toJSON.hasSegments => toJSON.segments = <<>>

\* C14 witness: 'clear-segments' has just emptied a visible set while two ids
\* are equivalent: toJSON() has 'equivalences' and no 'segments'.
C14_ClearedWithEquivalences ==
    /\ phase = "ready"
    /\ channel # <<>>
    /\ channel[Len(channel)].kind = "CLEAR_VISIBLE"
    /\ ~toJSON.hasSegments
    /\ toJSON.hasEquivalences

\* C15: however the disposal of the layer interleaves with the completion of
\* its volume, mesh and skeleton resolutions, no render layer is added to the
\* layer once it is disposed.
C15_NoLayerAfterDispose ==
    \A i \in DOMAIN renderLayers : ~renderLayers[i].wasDisposed

\* C15 witness: the volume resolved before the layer was disposed, the mesh
\* and the skeleton source after it; their callbacks ran and added nothing.
C15_DisposedBetweenResolutions ==
    /\ wasDisposed
    /\ \A r \in Resources : promise[r] = "done"
    /\ kindsAdded = {"SegmentationRenderLayer"}

\* C16: the layer gets at most one mesh layer, in whatever order the volume
\* and the mesh resolutions complete: the volume's own mesh source is used only
\* when no 'mesh' locator was given, the located mesh source only when one was.
C16_AtMostOneMesh ==
    /\ meshLayers <= 1
    /\ meshLayers = 0 <=> meshLayer = "undefined"
    /\ meshLayer = "volume" => ~paths["meshPath"] /\ volumeMesh = "source"
    /\ meshLayer = "mesh" => paths["meshPath"]

\* C16 witness: a 'mesh' locator was given, the mesh source resolved first and
\* then a volume that has a mesh source of its own; the layer is live and has
\* the one mesh layer of the located source.
C16_BothMeshSourcesResolved ==
    /\ ~wasDisposed
    /\ promise["volumePath"] = "done"
    /\ promise["meshPath"] = "done"
    /\ volumeMesh = "source"
    /\ meshLayer = "mesh"
    /\ Len(renderLayers) = 2
    /\ renderLayers[1].kind = "MeshLayer"
====
